---- MODULE Spec2Model ----
(***************************************************************************)
(* The two Streamlit scripts of the UK House Price Index dashboard,        *)
(* src/app.py (single-level region list) and src/dashboard.py (region      *)
(* hierarchy, first-time-buyer metrics).  A Streamlit script is executed   *)
(* top to bottom on every user interaction; one execution is the action    *)
(* Rerun.  Text is modelled as the sequence of its characters, so that     *)
(* parsing, sorting and comparison of names, dates and numbers are         *)
(* computed and not assumed.  Numbers are fixed point, in tenths.          *)
(***************************************************************************)
EXTENDS Integers, Sequences, FiniteSets, TLC

VARIABLES
  prog,                  \* which script runs: "app" or "dashboard"
  csv,                   \* the CSV file next to the script
  cache,                 \* st.cache_data's entry for load_data(): <<>> or <<df>>
  status,                \* how the last execution of the script ended
  after_no_data,         \* the execution before the last ended with the no-data message
  loads,                 \* executions of load_data's body in the last run
  selected_parent,       \* the script's globals of the last run
  selected_region,
  date_range,
  start_date,
  end_date,
  filtered_df,
  latest_data,           \* latest_data (app) / latest_data_row (dashboard): <<>> or <<row>>
  earliest_data,
  total_change_percent,  \* <<>> or <<numerator, denominator>>
  page                   \* the elements the last run put on the page, in order

vars == <<prog, csv, cache, status, after_no_data, loads, selected_parent, selected_region,
          date_range, start_date, end_date, filtered_df, latest_data,
          earliest_data, total_change_percent, page>>

\* The number of data rows of the CSV files explored.
MaxRows == 3

(***************************** text and numbers ****************************)

\* A blank CSV cell is read as NaN; a missing datetime is NaT.
NaN == <<>>

NaT == <<>>

isna(x) == x = <<>>

\* The characters of region names, in code point order.
Letters ==
  <<" ", "A","B","C","D","E","F","G","H","I","J","K","L","M","N","O","P","Q",
    "R","S","T","U","V","W","X","Y","Z","a","b","c","d","e","f","g","h","i",
    "j","k","l","m","n","o","p","q","r","s","t","u","v","w","x","y","z">>

code_point ==
  [c \in { Letters[i] : i \in 1..Len(Letters) } |->
     CHOOSE i \in 1..Len(Letters) : Letters[i] = c]

ord(c) == code_point[c]

\* Python's < on str: lexicographic by code point, a proper prefix first.
RECURSIVE str_lt(_, _)
str_lt(s, t) ==
  IF t = <<>> THEN FALSE
  ELSE IF s = <<>> THEN TRUE
  ELSE IF Head(s) = Head(t) THEN str_lt(Tail(s), Tail(t))
  ELSE ord(Head(s)) < ord(Head(t))

RECURSIVE insert_sorted(_, _)
insert_sorted(x, xs) ==
  IF xs = <<>> THEN <<x>>
  ELSE IF str_lt(x, Head(xs)) THEN <<x>> \o xs
  ELSE <<Head(xs)>> \o insert_sorted(x, Tail(xs))

\* sorted(list of str): ascending, stable.
RECURSIVE sorted(_)
sorted(xs) ==
  IF xs = <<>> THEN <<>>
  ELSE insert_sorted(xs[Len(xs)], sorted(SubSeq(xs, 1, Len(xs) - 1)))

\* Series.unique(): the distinct values, in order of first appearance.
RECURSIVE unique(_)
unique(xs) ==
  IF xs = <<>> THEN <<>>
  ELSE LET init == unique(SubSeq(xs, 1, Len(xs) - 1))
           x == xs[Len(xs)]
       IN IF \E i \in 1..Len(init) : init[i] = x THEN init ELSE Append(init, x)

Digits == <<"0","1","2","3","4","5","6","7","8","9">>

digit_value ==
  [c \in { Digits[i] : i \in 1..Len(Digits) } |->
     (CHOOSE i \in 1..Len(Digits) : Digits[i] = c) - 1]

IsDigit(c) == c \in DOMAIN digit_value

DigitVal(c) == digit_value[c]

AllDigits(s) == s # <<>> /\ \A i \in 1..Len(s) : IsDigit(s[i])

RECURSIVE DecVal(_)
DecVal(s) ==
  IF s = <<>> THEN 0
  ELSE 10 * DecVal(SubSeq(s, 1, Len(s) - 1)) + DigitVal(s[Len(s)])

\* str.split(sep): the fields between the separators.
RECURSIVE Split(_, _)
Split(s, sep) ==
  IF s = <<>> THEN << <<>> >>
  ELSE LET rest == Split(Tail(s), sep)
       IN IF Head(s) = sep THEN << <<>> >> \o rest
          ELSE << <<Head(s)>> \o rest[1] >> \o Tail(rest)

\* str.replace(ch, ''), regex=False.
RECURSIVE str_remove(_, _)
str_remove(s, ch) ==
  IF s = <<>> THEN <<>>
  ELSE IF Head(s) = ch THEN str_remove(Tail(s), ch)
  ELSE <<Head(s)>> \o str_remove(Tail(s), ch)

IsLeap(y) == (y % 4 = 0 /\ y % 100 # 0) \/ y % 400 = 0

DaysInMonth(m, y) ==
  IF m = 2 THEN (IF IsLeap(y) THEN 29 ELSE 28)
  ELSE IF m \in {4, 6, 9, 11} THEN 30 ELSE 31

\* A calendar date is the number YYYYMMDD, which orders as dates do.
MkDate(y, m, d) == y * 10000 + m * 100 + d

Year(date) == date \div 10000

Month(date) == (date \div 100) % 100

\* One cell against format='%d/%m/%Y': <<date>>, or <<>> when the text does
\* not match the format or names no day of the calendar.
strptime_dmY(text) ==
  LET f == Split(text, "/")
  IN IF Len(f) # 3 THEN <<>>
     ELSE IF ~(AllDigits(f[1]) /\ AllDigits(f[2]) /\ AllDigits(f[3])) THEN <<>>
     ELSE IF ~(Len(f[1]) \in 1..2 /\ Len(f[2]) \in 1..2 /\ Len(f[3]) = 4) THEN <<>>
     ELSE LET d == DecVal(f[1])
              m == DecVal(f[2])
              y == DecVal(f[3])
          IN IF m \in 1..12 /\ d >= 1 /\ d <= DaysInMonth(m, y)
             THEN << MkDate(y, m, d) >>
             ELSE <<>>

\* pd.to_numeric(cell, errors='coerce'): <<value in tenths>>, or NaN for a
\* blank cell and for text that is no number (a thousands separator, "nan").
to_numeric(cell) ==
  LET neg == cell # <<>> /\ Head(cell) = "-"
      body == IF neg THEN Tail(cell) ELSE cell
      sign == IF neg THEN -1 ELSE 1
      p == Split(body, ".")
  IN IF Len(p) = 1 /\ AllDigits(p[1]) THEN << sign * DecVal(p[1]) * 10 >>
     ELSE IF Len(p) = 2 /\ AllDigits(p[1]) /\ AllDigits(p[2]) /\ Len(p[2]) = 1
     THEN << sign * (DecVal(p[1]) * 10 + DecVal(p[2])) >>
     ELSE NaN

\* Series.astype(str) of one cell of an object column: NaN becomes "nan".
astype_str(cell) == IF cell = <<>> THEN <<"n","a","n">> ELSE cell

(******************************* the CSV file ******************************)

\* The data rows a CSV file is made of, by column.  Of the columns the
\* scripts read, the ones whose values reach a decision are kept.
CsvRows ==
  { \* London, 01/01/2023, 100000, 2.5, -1.0
    [RegionName |-> <<"L","o","n","d","o","n">>,
     Date |-> <<"0","1","/","0","1","/","2","0","2","3">>,
     AveragePrice |-> <<"1","0","0","0","0","0">>,
     Change12m |-> <<"2",".","5">>,
     FTBChange12m |-> <<"-","1",".","0">>],
    \* London, 01/01/2024, 110000, -1.5, 0.0
    [RegionName |-> <<"L","o","n","d","o","n">>,
     Date |-> <<"0","1","/","0","1","/","2","0","2","4">>,
     AveragePrice |-> <<"1","1","0","0","0","0">>,
     Change12m |-> <<"-","1",".","5">>,
     FTBChange12m |-> <<"0",".","0">>],
    \* London, 01/01/2024, blank price and changes
    [RegionName |-> <<"L","o","n","d","o","n">>,
     Date |-> <<"0","1","/","0","1","/","2","0","2","4">>,
     AveragePrice |-> <<>>,
     Change12m |-> <<>>,
     FTBChange12m |-> <<>>],
    \* London, 01/06/2023, 0, 0.0, 3.2
    [RegionName |-> <<"L","o","n","d","o","n">>,
     Date |-> <<"0","1","/","0","6","/","2","0","2","3">>,
     AveragePrice |-> <<"0">>,
     Change12m |-> <<"0",".","0">>,
     FTBChange12m |-> <<"3",".","2">>],
    \* london, 01/01/2023, "110,000", 1.0, blank
    [RegionName |-> <<"l","o","n","d","o","n">>,
     Date |-> <<"0","1","/","0","1","/","2","0","2","3">>,
     AveragePrice |-> <<"1","1","0",",","0","0","0">>,
     Change12m |-> <<"1",".","0">>,
     FTBChange12m |-> <<>>],
    \* Derby, 31/02/2023 (no such day), 100000, 2.5, 2.5
    [RegionName |-> <<"D","e","r","b","y">>,
     Date |-> <<"3","1","/","0","2","/","2","0","2","3">>,
     AveragePrice |-> <<"1","0","0","0","0","0">>,
     Change12m |-> <<"2",".","5">>,
     FTBChange12m |-> <<"2",".","5">>],
    \* blank region, 01/01/2024, 110000, -1.5, -1.5
    [RegionName |-> <<>>,
     Date |-> <<"0","1","/","0","1","/","2","0","2","4">>,
     AveragePrice |-> <<"1","1","0","0","0","0">>,
     Change12m |-> <<"-","1",".","5">>,
     FTBChange12m |-> <<"-","1",".","5">>],
    \* Leeds, blank date, 100000, 2.5, 2.5
    [RegionName |-> <<"L","e","e","d","s">>,
     Date |-> <<>>,
     AveragePrice |-> <<"1","0","0","0","0","0">>,
     Change12m |-> <<"2",".","5">>,
     FTBChange12m |-> <<"2",".","5">> ] }

\* The files: none at the path, or a header and up to MaxRows data rows.
CsvFiles ==
  { [exists |-> FALSE, rows |-> <<>>] } \cup
  { [exists |-> TRUE, rows |-> r] :
      r \in UNION { [1..n -> CsvRows] : n \in 0..MaxRows } }

(******************************** load_data ********************************)

\* df['Date'] = pd.to_datetime(df['Date'], format='%d/%m/%Y'), cell by cell.
to_datetime_col(df) ==
  [i \in 1..Len(df) |-> [df[i] EXCEPT !.Date = strptime_dmY(df[i].Date)]]

\* df[col] = pd.to_numeric(df[col], errors='coerce'), cell by cell.
to_numeric_col(df, col) ==
  [i \in 1..Len(df) |-> [df[i] EXCEPT ![col] = to_numeric(df[i][col])]]

\* df.dropna(subset=cols)
dropna(df, cols) == SelectSeq(df, LAMBDA r : \A c \in cols : ~isna(r[c]))

\* pd.to_datetime(column, format='%d/%m/%Y') with errors='raise' (the
\* default) raises on a cell that is not blank and does not parse.
to_datetime_raises(rows) ==
  \E i \in 1..Len(rows) :
    rows[i].Date # <<>> /\ strptime_dmY(rows[i].Date) = <<>>

\* read_csv leaves a column dtype object when a cell of it is no number.
is_object(rows, col) ==
  \E i \in 1..Len(rows) : rows[i][col] # <<>> /\ to_numeric(rows[i][col]) = NaN

strip_commas(cell) == str_remove(astype_str(cell), ",")

to_numeric_stripped(cell) == to_numeric(strip_commas(cell))

\* The same after the commas of the column are removed.
to_numeric_stripped_col(df, col) ==
  [i \in 1..Len(df) |-> [df[i] EXCEPT ![col] = to_numeric_stripped(df[i][col])]]

\* load_data of app.py: [raised, df].
app_load_data(file) ==
  IF ~file.exists \/ to_datetime_raises(file.rows)
  THEN [raised |-> TRUE, df |-> <<>>]
  ELSE LET d1 == to_datetime_col(file.rows)
           d2 == dropna(d1, {"RegionName"})
           d3 == to_numeric_col(d2, "AveragePrice")
           d4 == to_numeric_col(d3, "Change12m")
       IN [raised |-> FALSE, df |-> d4]

dashboard_numeric(rows, df, col) ==
  IF is_object(rows, col)
  THEN to_numeric_stripped_col(df, col)
  ELSE to_numeric_col(df, col)

\* load_data of dashboard.py: [raised, df].
dashboard_load_data(file) ==
  IF ~file.exists
  THEN [raised |-> TRUE, df |-> <<>>]
  ELSE LET d1 == to_datetime_col(file.rows)
           d2 == dropna(d1, {"Date", "RegionName"})
           d3 == dashboard_numeric(file.rows, d2, "AveragePrice")
           d4 == dashboard_numeric(file.rows, d3, "Change12m")
           d5 == dashboard_numeric(file.rows, d4, "FTBChange12m")
       IN [raised |-> FALSE, df |-> d5]

load_data(p, file) ==
  IF p = "app" THEN app_load_data(file) ELSE dashboard_load_data(file)

(***************************** region selection ****************************)

REGION_HIERARCHY ==
  <<
    [parent |-> <<"N","o","t","t","i","n","g","h","a","m","s","h","i","r","e">>,   \* Nottinghamshire
     children |-> <<
       <<"N","o","t","t","i","n","g","h","a","m">>,  \* Nottingham
       <<"R","u","s","h","c","l","i","f","f","e">>,  \* Rushcliffe
       <<"B","r","o","x","t","o","w","e">>,  \* Broxtowe
       <<"G","e","d","l","i","n","g">>,  \* Gedling
       <<"N","e","w","a","r","k"," ","a","n","d"," ","S","h","e","r","w","o","o","d">>,  \* Newark and Sherwood
       <<"M","a","n","s","f","i","e","l","d">>,  \* Mansfield
       <<"A","s","h","f","i","e","l","d">>,  \* Ashfield
       <<"B","a","s","s","e","t","l","a","w">>,  \* Bassetlaw
       <<"N","o","t","t","i","n","g","h","a","m","s","h","i","r","e">>  \* Nottinghamshire
     >>],
    [parent |-> <<"D","e","r","b","y","s","h","i","r","e">>,   \* Derbyshire
     children |-> <<
       <<"D","e","r","b","y">>,  \* Derby
       <<"A","m","b","e","r"," ","V","a","l","l","e","y">>,  \* Amber Valley
       <<"B","o","l","s","o","v","e","r">>,  \* Bolsover
       <<"C","h","e","s","t","e","r","f","i","e","l","d">>,  \* Chesterfield
       <<"D","e","r","b","y","s","h","i","r","e"," ","D","a","l","e","s">>,  \* Derbyshire Dales
       <<"E","r","e","w","a","s","h">>,  \* Erewash
       <<"H","i","g","h"," ","P","e","a","k">>,  \* High Peak
       <<"N","o","r","t","h"," ","E","a","s","t"," ","D","e","r","b","y","s","h","i","r","e">>,  \* North East Derbyshire
       <<"S","o","u","t","h"," ","D","e","r","b","y","s","h","i","r","e">>  \* South Derbyshire
     >>],
    [parent |-> <<"L","o","n","d","o","n">>,   \* London
     children |-> <<
       <<"L","o","n","d","o","n">>,  \* London
       <<"B","a","r","k","i","n","g"," ","a","n","d"," ","D","a","g","e","n","h","a","m">>,  \* Barking and Dagenham
       <<"B","a","r","n","e","t">>,  \* Barnet
       <<"B","e","x","l","e","y">>,  \* Bexley
       <<"B","r","e","n","t">>,  \* Brent
       <<"B","r","o","m","l","e","y">>,  \* Bromley
       <<"C","a","m","d","e","n">>,  \* Camden
       <<"C","i","t","y"," ","o","f"," ","L","o","n","d","o","n">>,  \* City of London
       <<"C","r","o","y","d","o","n">>,  \* Croydon
       <<"E","a","l","i","n","g">>,  \* Ealing
       <<"E","n","f","i","e","l","d">>,  \* Enfield
       <<"G","r","e","e","n","w","i","c","h">>,  \* Greenwich
       <<"H","a","c","k","n","e","y">>,  \* Hackney
       <<"H","a","m","m","e","r","s","m","i","t","h"," ","a","n","d"," ","F","u","l","h","a","m">>,  \* Hammersmith and Fulham
       <<"H","a","r","i","n","g","e","y">>,  \* Haringey
       <<"H","a","r","r","o","w">>,  \* Harrow
       <<"H","a","v","e","r","i","n","g">>,  \* Havering
       <<"H","i","l","l","i","n","g","d","o","n">>,  \* Hillingdon
       <<"H","o","u","n","s","l","o","w">>,  \* Hounslow
       <<"I","s","l","i","n","g","t","o","n">>,  \* Islington
       <<"K","e","n","s","i","n","g","t","o","n"," ","a","n","d"," ","C","h","e","l","s","e","a">>,  \* Kensington and Chelsea
       <<"K","i","n","g","s","t","o","n"," ","u","p","o","n"," ","T","h","a","m","e","s">>,  \* Kingston upon Thames
       <<"L","a","m","b","e","t","h">>,  \* Lambeth
       <<"L","e","w","i","s","h","a","m">>,  \* Lewisham
       <<"M","e","r","t","o","n">>,  \* Merton
       <<"N","e","w","h","a","m">>,  \* Newham
       <<"R","e","d","b","r","i","d","g","e">>,  \* Redbridge
       <<"R","i","c","h","m","o","n","d"," ","u","p","o","n"," ","T","h","a","m","e","s">>,  \* Richmond upon Thames
       <<"S","o","u","t","h","w","a","r","k">>,  \* Southwark
       <<"S","u","t","t","o","n">>,  \* Sutton
       <<"T","o","w","e","r"," ","H","a","m","l","e","t","s">>,  \* Tower Hamlets
       <<"W","a","l","t","h","a","m"," ","F","o","r","e","s","t">>,  \* Waltham Forest
       <<"W","a","n","d","s","w","o","r","t","h">>,  \* Wandsworth
       <<"W","e","s","t","m","i","n","s","t","e","r">>  \* Westminster
     >>],
    [parent |-> <<"A","l","l"," ","D","a","t","a">>,   \* All Data
     children |-> <<
     >>]
  >>

AllData == <<"A","l","l"," ","D","a","t","a">>

\* list(REGION_HIERARCHY.keys())
hierarchy_keys == [i \in 1..Len(REGION_HIERARCHY) |-> REGION_HIERARCHY[i].parent]

\* REGION_HIERARCHY[parent]
hierarchy_children(parent) ==
  (CHOOSE e \in { REGION_HIERARCHY[i] : i \in 1..Len(REGION_HIERARCHY) } :
     e.parent = parent).children

\* parent_regions: the keys sorted, with "All Data" moved to the end.
parent_regions ==
  IF \E i \in 1..Len(hierarchy_keys) : hierarchy_keys[i] = AllData
  THEN Append(sorted(SelectSeq(hierarchy_keys, LAMBDA k : k # AllData)), AllData)
  ELSE hierarchy_keys

Column(df, col) == [i \in 1..Len(df) |-> df[i][col]]

\* all_regions of app.py: sorted(df['RegionName'].unique())
all_regions(df) == sorted(unique(Column(df, "RegionName")))

\* sorted(REGION_HIERARCHY[parent]), for every key.
sorted_children ==
  [k \in { hierarchy_keys[i] : i \in 1..Len(hierarchy_keys) } |->
     sorted(hierarchy_children(k))]

\* Faulty variant of available_cities: the lists are offered unsorted.
available_cities_unsorted(parent, df) ==
  IF parent = AllData
  THEN unique(Column(df, "RegionName"))
  ELSE hierarchy_children(parent)

\* available_cities of dashboard.py
available_cities(parent, df) ==
  IF parent = AllData
  THEN sorted(unique(Column(df, "RegionName")))
  ELSE sorted_children[parent]

\* The options of a select box the user is taken to pick: the first, and
\* every option that names a region of the CSV rows; None (<<>>) when the
\* box has no options.
DataNames == { r.RegionName : r \in CsvRows }

Picks(options) ==
  IF options = <<>> THEN { <<>> }
  ELSE { options[i] : i \in { j \in 1..Len(options) : j = 1 \/ options[j] \in DataNames } }

(******************************** date range *******************************)

Dates(df) == { df[i].Date[1] : i \in { j \in 1..Len(df) : df[j].Date # NaT } }

SetMin(S) == CHOOSE x \in S : \A y \in S : x <= y

SetMax(S) == CHOOSE x \in S : \A y \in S : x >= y

\* df['Date'].min() and .max(): NaT is skipped, and is the result when no
\* date is left.
date_min(df) == IF Dates(df) = {} THEN NaT ELSE << SetMin(Dates(df)) >>

date_max(df) == IF Dates(df) = {} THEN NaT ELSE << SetMax(Dates(df)) >>

\* What st.sidebar.date_input hands back: a tuple of no, one or two days
\* between min_value and max_value.  The script receives the tuple as the
\* front end sent it; the days offered here are those of the data.
DateInputs(df) ==
  { <<>> } \cup { <<a>> : a \in Dates(df) } \cup { <<a, b>> : a \in Dates(df), b \in Dates(df) }

\* start_date and end_date: <<start, end>>
date_bounds(range, min_date, max_date) ==
  IF Len(range) = 2
  THEN << range[1], range[2] >>
  ELSE << min_date, max_date >>

(********************************* filtering *******************************)

\* Faulty variant of filter_mask: the end of the range is exclusive.
filter_mask_exclusive_end(r, region, start, end) ==
  /\ r.RegionName = region
  /\ r.Date # NaT
  /\ r.Date[1] >= start
  /\ r.Date[1] < end

\* The boolean mask of the filter, for one row.  A comparison with NaT is
\* False.
filter_mask(r, region, start, end) ==
  /\ r.RegionName = region
  /\ r.Date # NaT
  /\ r.Date[1] >= start
  /\ r.Date[1] <= end

Orderings(n) ==
  { p \in [1..n -> 1..n] : \A i, j \in 1..n : i # j => p[i] # p[j] }

\* DataFrame.sort_values(by='Date') with the default kind='quicksort',
\* which is not documented as stable: every ascending arrangement of the
\* rows is a possible result.
sort_values_Date(rows) ==
  { [i \in 1..Len(rows) |-> rows[p[i]]] :
      p \in { q \in Orderings(Len(rows)) :
                \A i \in 1..(Len(rows) - 1) : rows[q[i]].Date[1] <= rows[q[i + 1]].Date[1] } }

\* filtered_df: the possible results of the filter and the sort.
filter_rows(df, region, start, end) ==
  sort_values_Date(SelectSeq(df, LAMBDA r : filter_mask(r, region, start, end)))

(********************************** metrics ********************************)

NotPassed == "not passed"

\* n / d as floats divide: <<n, d>> with d > 0; a zero divisor gives
\* <<1, 0>> (inf), <<-1, 0>> (-inf) or <<0, 0>> (nan).
truediv(n, d) ==
  IF d = 0 THEN << (IF n > 0 THEN 1 ELSE IF n < 0 THEN -1 ELSE 0), 0 >>
  ELSE IF d < 0 THEN << -n, -d >>
  ELSE << n, d >>

\* round(n / d) for d > 0, ties to even.
round_div(n, d) ==
  LET q == n \div d
      r == n - q * d
  IN IF 2 * r < d THEN q
     ELSE IF 2 * r > d THEN q + 1
     ELSE IF q % 2 = 0 THEN q ELSE q + 1

\* f"{x:.1f}%" of the quotient x = q[1] / q[2]: the percentage in tenths.
fmt_pct(q) ==
  IF q[2] = 0 THEN << "%", (IF q[1] = 0 THEN "nan" ELSE "inf") >>
  ELSE << "%", round_div(q[1] * 10, q[2]) >>

\* f"£{price:,.0f}" of a price in tenths.
fmt_gbp(price) ==
  IF isna(price) THEN << "£nan" >> ELSE << "£", round_div(price[1], 10) >>

\* Faulty variant of delta_color: 0 is classified with the decreases.
delta_color_nonpositive(x) == IF x <= 0 THEN "normal" ELSE "inverse"

\* delta_color="normal" if x < 0 else "inverse", x the numerator of a
\* quotient with positive denominator.
delta_color(x) == IF x < 0 THEN "normal" ELSE "inverse"

\* A change metric read from a column, in tenths of a percent.
change_metric(label, na_label, x) ==
  IF ~isna(x)
  THEN [kind |-> "metric", label |-> label, value |-> << "%", x[1] >>,
        delta |-> << "%", x[1] >>, delta_color |-> delta_color(x[1])]
  ELSE [kind |-> "metric", label |-> na_label, value |-> << "N/A" >>,
        delta |-> <<>>, delta_color |-> NotPassed]

\* app.py: latest_data = filtered_df.iloc[-1], earliest_data = filtered_df.iloc[0]
app_latest_data(view) == view[Len(view)]

app_earliest_data(view) == view[1]

\* Faulty variant of app_total_change_percent: no guard on a start price of 0.
app_total_change_unguarded(view) ==
  IF Len(view) > 1
  THEN LET start_price == app_earliest_data(view).AveragePrice
           end_price == app_latest_data(view).AveragePrice
       IN IF ~isna(start_price) /\ ~isna(end_price)
          THEN LET q == truediv(end_price[1] - start_price[1], start_price[1])
               IN << q[1] * 100, q[2] >>
          ELSE <<>>
  ELSE <<>>

\* app.py: total_change_percent, <<>> when it is not computed.
app_total_change_percent(view) ==
  IF Len(view) > 1
  THEN LET start_price == app_earliest_data(view).AveragePrice
           end_price == app_latest_data(view).AveragePrice
       IN IF ~isna(start_price) /\ ~isna(end_price) /\ start_price[1] # 0
          THEN LET q == truediv(end_price[1] - start_price[1], start_price[1])
               IN << q[1] * 100, q[2] >>
          ELSE <<>>
  ELSE <<>>

\* app.py: the third metric.
app_total_change_metric(view) ==
  LET t == app_total_change_percent(view)
  IN IF Len(view) > 1
     THEN IF t # <<>>
          THEN [kind |-> "metric", label |-> "Price Change",
                value |-> fmt_pct(t), delta |-> fmt_pct(t),
                delta_color |-> delta_color(t[1])]
          ELSE [kind |-> "metric", label |-> "Total Price Change",
                value |-> << "Insufficient Data" >>, delta |-> <<>>,
                delta_color |-> NotPassed]
     ELSE [kind |-> "metric", label |-> "Total Price Change",
           value |-> << "N/A (Need more data points)" >>, delta |-> <<>>,
           delta_color |-> NotPassed]

\* dashboard.py: latest_data_row, the first row at the latest date.
dashboard_latest_data_row(view) ==
  LET latest_date == SetMax({ view[i].Date[1] : i \in 1..Len(view) })
      latest_data_rows == SelectSeq(view, LAMBDA r : r.Date[1] = latest_date)
  IN latest_data_rows[1]


(***************************** one run of a script *************************)

\* The globals of a run that stopped before binding them.
Unset ==
  [selected_parent |-> <<>>, selected_region |-> <<>>, date_range |-> <<>>,
   start_date |-> NaT, end_date |-> NaT, filtered_df |-> <<>>,
   latest_data |-> <<>>, earliest_data |-> <<>>, total_change_percent |-> <<>>]

Outcome(st, g, pg) == [status |-> st, g |-> g, page |-> pg]

\* Faulty variant of load_failed: st.stop() is missing, and the script goes on to
\* read df, which is not bound.
load_failed_without_stop ==
  [status |-> "exception", g |-> Unset,
   page |-> << [kind |-> "load_state", label |-> "error"],
               [kind |-> "exception", label |-> "NameError"] >>]

\* except Exception as e: data_load_state.error(...); st.stop()
load_failed ==
  Outcome("load_error", Unset, << [kind |-> "load_state", label |-> "error"] >>)

\* An exception no handler catches ends the run; Streamlit shows it.
uncaught(g, pg) ==
  Outcome("exception", g, Append(pg, [kind |-> "exception", label |-> "ValueError"]))

\* Faulty variant of no_data: st.stop() is missing, and the script goes on to
\* index the empty view.
no_data_without_stop(g, pg) ==
  [status |-> "exception", g |-> g,
   page |-> pg \o << [kind |-> "error", label |-> "No data"],
                     [kind |-> "exception", label |-> "IndexError"] >>]

\* if filtered_df.empty: st.error(...); st.stop()
no_data(g, pg) ==
  Outcome("no_data", g, Append(pg, [kind |-> "error", label |-> "No data"]))

price_metric(label, price, when) ==
  [kind |-> "metric", label |-> label, value |-> fmt_gbp(price), delta |-> <<>>,
   delta_color |-> NotPassed, when |-> when]

na_metric(label) ==
  [kind |-> "metric", label |-> label, value |-> << "N/A" >>, delta |-> <<>>,
   delta_color |-> NotPassed]

chart(name, points) == [kind |-> "chart", label |-> name, points |-> points]

app_sidebar(df, region) ==
  << [kind |-> "load_state", label |-> "success"],
     [kind |-> "selectbox", label |-> "Select Region to Analyse:",
      options |-> all_regions(df), value |-> region] >>

\* app.py from the title to the caption, for a view that is not empty.
app_main(g, pg, view) ==
  LET latest == app_latest_data(view)
      earliest == app_earliest_data(view)
      total == app_total_change_percent(view)
  IN Outcome("rendered",
       [g EXCEPT !.latest_data = << latest >>, !.earliest_data = << earliest >>,
                 !.total_change_percent = total],
       pg \o
       << [kind |-> "title", label |-> g.selected_region],
          price_metric("Latest Avg. Price", latest.AveragePrice,
                       << Month(latest.Date[1]), Year(latest.Date[1]) >>),
          change_metric("Latest 12-Month Price Change",
                        "Latest 12-Month Price Change", latest.Change12m),
          app_total_change_metric(view),
          chart("fig_price", Len(view)),
          chart("fig_change", Len(view)),
          [kind |-> "caption", label |-> "Data source"] >>)

\* app.py from the date input on.
app_body(df, region, range, view) ==
  LET b == date_bounds(range, date_min(df)[1], date_max(df)[1])
      g == [Unset EXCEPT !.selected_region = region, !.date_range = range,
                         !.start_date = << b[1] >>, !.end_date = << b[2] >>,
                         !.filtered_df = view]
      pg == Append(app_sidebar(df, region),
                   [kind |-> "date_input", label |-> "Select Time Period:",
                    value |-> range])
  IN IF view = <<>> THEN no_data(g, pg) ELSE app_main(g, pg, view)

dashboard_sidebar(df, parent, region) ==
  << [kind |-> "load_state", label |-> "success"],
     [kind |-> "selectbox", label |-> "1. Select Region / County:",
      options |-> parent_regions, value |-> parent],
     [kind |-> "selectbox", label |-> "2. Select City in",
      options |-> available_cities(parent, df), value |-> region] >>

\* The house type and first-time-buyer price columns are blank in the
\* files explored, so their bar chart is replaced by the notice and the
\* FTB price is not available.
dashboard_main(g, pg, view) ==
  LET latest == dashboard_latest_data_row(view)
      priced == SelectSeq(view, LAMBDA r : ~isna(r.AveragePrice))
  IN Outcome("rendered",
       [g EXCEPT !.latest_data = << latest >>],
       pg \o
       << [kind |-> "title", label |-> g.selected_region],
          chart("fig_price", Len(priced)),
          [kind |-> "info", label |-> "House type data is not available"],
          IF ~isna(latest.AveragePrice)
          THEN price_metric("Avg Price (All)", latest.AveragePrice,
                            << Month(latest.Date[1]), Year(latest.Date[1]) >>)
          ELSE na_metric("Avg Price (All)"),
          change_metric("Annual Change", "Annual Change", latest.Change12m),
          na_metric("FTB Price"),
          change_metric("FTB Annual Change", "FTB Annual Change",
                        latest.FTBChange12m) >>)

dashboard_body(df, parent, region, range, view) ==
  LET b == date_bounds(range, date_min(df)[1], date_max(df)[1])
      g == [Unset EXCEPT !.selected_parent = parent, !.selected_region = region,
                         !.date_range = range,
                         !.start_date = << b[1] >>, !.end_date = << b[2] >>,
                         !.filtered_df = view]
      pg == Append(dashboard_sidebar(df, parent, region),
                   [kind |-> "date_input", label |-> "Select Dates:",
                    value |-> range])
  IN IF view = <<>> THEN no_data(g, pg) ELSE dashboard_main(g, pg, view)

(********************************* the system ******************************)

Ends(o) ==
  /\ status' = o.status
  /\ page' = o.page
  /\ selected_parent' = o.g.selected_parent
  /\ selected_region' = o.g.selected_region
  /\ date_range' = o.g.date_range
  /\ start_date' = o.g.start_date
  /\ end_date' = o.g.end_date
  /\ filtered_df' = o.g.filtered_df
  /\ latest_data' = o.g.latest_data
  /\ earliest_data' = o.g.earliest_data
  /\ total_change_percent' = o.g.total_change_percent

Init ==
  /\ prog \in {"app", "dashboard"}
  /\ csv \in CsvFiles
  /\ cache = <<>>
  /\ status = "queued"
  /\ after_no_data = FALSE
  /\ loads = 0
  /\ page = <<>>
  /\ selected_parent = <<>>
  /\ selected_region = <<>>
  /\ date_range = <<>>
  /\ start_date = NaT
  /\ end_date = NaT
  /\ filtered_df = <<>>
  /\ latest_data = <<>>
  /\ earliest_data = <<>>
  /\ total_change_percent = <<>>

\* app.py below the load: the user's region and dates are the inputs.
AppRun(df) ==
  \E region \in Picks(all_regions(df)) :
    IF date_min(df) = NaT
    THEN \* min_date = df['Date'].min().date() raises on NaT
         Ends(uncaught([Unset EXCEPT !.selected_region = region],
                       app_sidebar(df, region)))
    ELSE \E range \in DateInputs(df) :
           LET b == date_bounds(range, date_min(df)[1], date_max(df)[1])
           IN \E view \in filter_rows(df, region, b[1], b[2]) :
                Ends(app_body(df, region, range, view))

\* dashboard.py below the load.
DashboardRun(df) ==
  \E i \in 1..Len(parent_regions) :
    LET parent == parent_regions[i]
    IN \E region \in Picks(available_cities(parent, df)) :
         IF date_min(df) = NaT
         THEN Ends(uncaught([Unset EXCEPT !.selected_parent = parent,
                                          !.selected_region = region],
                            dashboard_sidebar(df, parent, region)))
         ELSE \E range \in DateInputs(df) :
                LET b == date_bounds(range, date_min(df)[1], date_max(df)[1])
                IN \E view \in filter_rows(df, region, b[1], b[2]) :
                     Ends(dashboard_body(df, parent, region, range, view))

\* One execution of the script, top to bottom.  load_data is memoised by
\* st.cache_data: its body runs when no result is cached, and a result is
\* cached only when the body returns.
Rerun ==
  /\ status = "queued"
  /\ LET hit == cache # <<>>
         res == IF hit THEN [raised |-> FALSE, df |-> cache[1]]
                ELSE load_data(prog, csv)
     IN /\ loads' = (IF hit THEN 0 ELSE 1)
        /\ cache' = (IF res.raised THEN cache ELSE << res.df >>)
        /\ IF res.raised THEN Ends(load_failed)
           ELSE IF prog = "app" THEN AppRun(res.df)
           ELSE DashboardRun(res.df)
  /\ UNCHANGED <<prog, csv, after_no_data>>

Finished == {"load_error", "exception", "no_data", "rendered"}

HasWidgets(pg) ==
  \E i \in 1..Len(pg) : pg[i].kind \in {"selectbox", "date_input"}

\* Streamlit queues a new execution of the script; the page of the last
\* one is replaced by what the new one renders.
Requeue ==
  /\ status' = "queued"
  /\ after_no_data' = (status = "no_data")
  /\ loads' = 0
  /\ page' = <<>>
  /\ selected_parent' = <<>>
  /\ selected_region' = <<>>
  /\ date_range' = <<>>
  /\ start_date' = NaT
  /\ end_date' = NaT
  /\ filtered_df' = <<>>
  /\ latest_data' = <<>>
  /\ earliest_data' = <<>>
  /\ total_change_percent' = <<>>
  /\ UNCHANGED <<prog, csv, cache>>

\* The user changes a widget of the sidebar.
Interact ==
  /\ status \in Finished
  /\ HasWidgets(page)
  /\ Requeue

\* The user reloads the page in the browser.
Reload ==
  /\ status \in Finished
  /\ Requeue

Next == Rerun \/ Interact \/ Reload

Spec == Init /\ [][Next]_vars

(********************************* properties ******************************)

\* The DataFrame the last run worked on.
df_loaded == cache[1]

Count(seq, x) == Cardinality({ i \in 1..Len(seq) : seq[i] = x })

Filtered == status \in {"no_data", "rendered"}

Elements(kinds) == SelectSeq(page, LAMBDA e : e.kind \in kinds)

Metrics(labels) ==
  SelectSeq(page, LAMBDA e : e.kind = "metric" /\ e.label \in labels)

Priced(view) == SelectSeq(view, LAMBDA r : ~isna(r.AveragePrice))

ViewDates(view) == { view[i].Date[1] : i \in 1..Len(view) }

\* C1: after the filter step, filtered_df holds exactly the rows of the
\* dataset whose RegionName equals the selected region and whose Date lies
\* in [start_date, end_date], each as often as the dataset holds it, and in
\* non-decreasing Date order.
C1_FilterExact ==
  Filtered =>
    LET s == start_date[1]
        e == end_date[1]
        Match(r) == /\ r.RegionName = selected_region
                    /\ r.Date # NaT
                    /\ s <= r.Date[1]
                    /\ r.Date[1] <= e
    IN /\ \A i \in 1..Len(filtered_df) :
            /\ Match(filtered_df[i])
            /\ Count(filtered_df, filtered_df[i]) = Count(df_loaded, filtered_df[i])
       /\ \A i \in 1..Len(df_loaded) :
            Match(df_loaded[i]) => Count(filtered_df, df_loaded[i]) > 0
       /\ \A i \in 1..(Len(filtered_df) - 1) :
            filtered_df[i].Date[1] <= filtered_df[i + 1].Date[1]

\* C1 witness: a view of two rows was selected from a dataset of three, one
\* row of the same region in another case ("london") or outside the dates
\* being left out.
C1_Witness ==
  /\ status = "rendered"
  /\ Len(filtered_df) = 2
  /\ Len(df_loaded) = 3
  /\ filtered_df[1].Date # filtered_df[2].Date
  /\ \E i \in 1..3 : df_loaded[i].RegionName # selected_region

\* C2: the latest row (and the earliest, where there is one) has a
\* non-null AveragePrice, and the latest row is the first row, in sorted
\* order, at the maximum Date among the rows with a non-null AveragePrice.
C2_Original ==
  status = "rendered" =>
    LET priced == Priced(filtered_df)
    IN /\ ~isna(latest_data[1].AveragePrice)
       /\ earliest_data # <<>> => ~isna(earliest_data[1].AveragePrice)
       /\ priced # <<>> =>
            latest_data[1] =
              SelectSeq(priced, LAMBDA r : r.Date[1] = SetMax(ViewDates(priced)))[1]

Abs(x) == IF x < 0 THEN -x ELSE x

RECURSIVE Gcd(_, _)
Gcd(a, b) == IF b = 0 THEN a ELSE Gcd(b, a % b)

\* The quotient n / d, d # 0, in lowest terms with a positive denominator.
Lowest(n, d) ==
  LET g == Gcd(Abs(n), Abs(d))
      sgn == IF d < 0 THEN -1 ELSE 1
  IN << sgn * (n \div g), sgn * (d \div g) >>

\* The period change q (a quotient) is ((l - e) / e) * 100.
IsPeriodChange(q, e, l) ==
  /\ q[2] # 0
  /\ e # 0
  /\ Lowest(q[1], q[2]) = Lowest((l - e) * 100, e)

PeriodMetric == Metrics({"Price Change", "Total Price Change"})

\* C3: with earliestPrice and latestPrice taken from a row at the
\* minimum and at the maximum Date among the rows with a non-null
\* AveragePrice, the period change is that number when there are two such
\* rows and earliestPrice is not 0, and is not reported as a number
\* otherwise.
C3_Original ==
  (status = "rendered" /\ prog = "app") =>
    LET priced == Priced(filtered_df)
        first == { r \in { priced[i] : i \in 1..Len(priced) } :
                     r.Date[1] = SetMin(ViewDates(priced)) }
        last == { r \in { priced[i] : i \in 1..Len(priced) } :
                    r.Date[1] = SetMax(ViewDates(priced)) }
    IN IF Len(priced) < 2
       THEN total_change_percent = <<>>
       ELSE \E e \in first, l \in last :
              IF e.AveragePrice[1] = 0
              THEN total_change_percent = <<>>
              ELSE /\ total_change_percent # <<>>
                   /\ IsPeriodChange(total_change_percent,
                                     e.AveragePrice[1], l.AveragePrice[1])

\* C4: when the earliest price is 0 and the latest price is non-null (the
\* prices of the first and last row of the view, or of its first and last
\* row with a price), the period change is the insufficient-data sentinel; no division by a zero
\* price is evaluated, so the period change is never infinite or NaN.
C4_ZeroGuard ==
  (status = "rendered" /\ prog = "app") =>
    /\ total_change_percent # <<>> => total_change_percent[2] # 0
    /\ ( \/ /\ earliest_data[1].AveragePrice = << 0 >>
            /\ ~isna(latest_data[1].AveragePrice)
         \/ /\ Priced(filtered_df) # <<>>
            /\ Priced(filtered_df)[1].AveragePrice = << 0 >> ) =>
         /\ total_change_percent = <<>>
         /\ Len(PeriodMetric) = 1
         /\ PeriodMetric[1].value \in { << "Insufficient Data" >>,
                                       << "N/A (Need more data points)" >> }
         /\ PeriodMetric[1].delta = <<>>

\* C4 witness: a view of several rows whose first price is 0 and whose last
\* price is a number.
C4_Witness ==
  /\ status = "rendered"
  /\ prog = "app"
  /\ Len(filtered_df) >= 2
  /\ earliest_data[1].AveragePrice = << 0 >>
  /\ ~isna(latest_data[1].AveragePrice)
  /\ latest_data[1].AveragePrice # << 0 >>

\* C5: the dates used for filtering satisfy start <= end, and are
\* the dataset's minimum and maximum Date whenever the date range given is
\* single-sided or inverted.
C5_Original ==
  Filtered =>
    /\ start_date[1] <= end_date[1]
    /\ ( \/ Len(date_range) = 1
         \/ (Len(date_range) = 2 /\ date_range[1] > date_range[2]) ) =>
         /\ start_date = date_min(df_loaded)
         /\ end_date = date_max(df_loaded)

\* C6: a run whose filter (reached once start_date is bound) yields an empty
\* view ends there: it shows the no-data message,
\* renders no metric and no chart, computes no snapshot and raises nothing,
\* and leaves the sidebar in place; the run after it takes the dataset from
\* the cache without loading again and goes through the filter, and through
\* the metrics when its view is not empty.
C6_NoData ==
  /\ (status \in Finished /\ start_date # NaT /\ filtered_df = <<>>) =>
       status = "no_data"
  /\ status = "no_data" =>
       /\ filtered_df = <<>>
       /\ Len(Elements({"error"})) = 1
       /\ page[Len(page)].kind = "error"
       /\ Elements({"metric", "chart", "title", "exception"}) = <<>>
       /\ latest_data = <<>>
       /\ earliest_data = <<>>
       /\ total_change_percent = <<>>
       /\ HasWidgets(page)
       /\ cache = << load_data(prog, csv).df >>
  /\ after_no_data =>
       /\ status \in {"queued", "no_data", "rendered"}
       /\ cache = << load_data(prog, csv).df >>
       /\ status # "queued" => loads = 0
       /\ status = "rendered" =>
            /\ filtered_df # <<>>
            /\ latest_data # <<>>
            /\ Elements({"metric"}) # <<>>
            /\ Elements({"chart"}) # <<>>

\* C6 witness: the run after a no-data run rendered the dashboard; the
\* region of the no-data run is one the dataset does not hold.
C6_Witness ==
  /\ after_no_data
  /\ status = "rendered"
  /\ loads = 0

\* C7: when load_data raises, the run shows the error and stops: the page
\* holds the error alone (no region list, no date input, no metric, no
\* chart), nothing is filtered, load_data's body ran once, and nothing is
\* cached.
C7_LoadFailure ==
  /\ (status \in Finished /\ load_data(prog, csv).raised) => status = "load_error"
  /\ status = "load_error" =>
       /\ load_data(prog, csv).raised
       /\ page = << [kind |-> "load_state", label |-> "error"] >>
       /\ loads = 1
       /\ cache = <<>>
       /\ selected_region = <<>>
       /\ date_range = <<>>
       /\ filtered_df = <<>>
       /\ latest_data = <<>>
       /\ total_change_percent = <<>>

\* C7 witness: a load failure on a file that exists, and one on a file that
\* does not, are both reached; this is the first.
C7_Witness ==
  /\ status = "load_error"
  /\ csv.exists
  /\ loads = 1

\* C8: for every file that can be read the loader succeeds, and
\* every record of the dataset has a RegionName and a valid Date.
C8_Original ==
  (status \in Finished /\ csv.exists) =>
    /\ status # "load_error"
    /\ cache # <<>>
    /\ \A i \in 1..Len(df_loaded) :
         /\ ~isna(df_loaded[i].RegionName)
         /\ df_loaded[i].Date # NaT

StrictlySorted(xs) == \A i \in 1..(Len(xs) - 1) : str_lt(xs[i], xs[i + 1])

RegionBox ==
  Elements({"selectbox"})[IF prog = "app" THEN 1 ELSE 2]

Declared(parent) ==
  REGION_HIERARCHY[CHOOSE i \in 1..Len(REGION_HIERARCHY) :
                     REGION_HIERARCHY[i].parent = parent].children

\* C9: the regions offered are, for a parent other than "All Data", the
\* parent's declared children in lexicographic order, whatever the dataset
\* holds; for "All Data", and in app.py, every distinct RegionName of the
\* dataset, once each, in lexicographic order.
C9_ChildRegions ==
  (status \in {"exception", "no_data", "rendered"}) =>
    LET opts == RegionBox.options
        names == { df_loaded[i].RegionName : i \in 1..Len(df_loaded) }
    IN /\ StrictlySorted(opts)
       /\ IF prog = "dashboard" /\ selected_parent # AllData
          THEN /\ Len(opts) = Len(Declared(selected_parent))
               /\ \A i \in 1..Len(opts) : Count(Declared(selected_parent), opts[i]) = 1
          ELSE { opts[i] : i \in 1..Len(opts) } = names

\* C9 witness: "All Data" offers two names for a dataset of three rows.
C9_Witness ==
  /\ status = "rendered"
  /\ prog = "dashboard"
  /\ selected_parent = AllData
  /\ Len(RegionBox.options) = 2
  /\ Len(df_loaded) = 3

ColourOf(x) == IF x < 0 THEN "normal" ELSE "inverse"

ChangeRule(m, x) ==
  /\ Len(m) = 1
  /\ IF isna(x)
     THEN m[1].delta = <<>> /\ m[1].delta_color = NotPassed
     ELSE m[1].delta # <<>> /\ m[1].delta_color = ColourOf(x[1])

\* C10: the annual change, the period change and the first-time-buyer
\* annual change are classified by one rule, on the sign of the value
\* alone: "normal" below 0, "inverse" at 0 and above; a change that is not
\* available is rendered without delta and without classification.
C10_DeltaColour ==
  status = "rendered" =>
    /\ ChangeRule(Metrics({"Latest 12-Month Price Change", "Annual Change"}),
                  latest_data[1].Change12m)
    /\ prog = "app" =>
         ChangeRule(PeriodMetric,
                    IF total_change_percent = <<>> THEN <<>>
                    ELSE << total_change_percent[1] >>)
    /\ prog = "dashboard" =>
         ChangeRule(Metrics({"FTB Annual Change"}), latest_data[1].FTBChange12m)

\* C10 witness: an annual change of exactly 0 is classified "inverse", next
\* to a period change below 0 classified "normal".
C10_Witness ==
  /\ status = "rendered"
  /\ prog = "app"
  /\ latest_data[1].Change12m = << 0 >>
  /\ Metrics({"Latest 12-Month Price Change"})[1].delta_color = "inverse"
  /\ total_change_percent # <<>>
  /\ total_change_percent[1] < 0
  /\ PeriodMetric[1].delta_color = "normal"

====
